---- MODULE Spec2Model ----
(***************************************************************************)
(* Model of tools/rank.py: the LangGraph pipeline                          *)
(*   fetch_repositories -> dense_retrieval -> cross_encoder_rerank ->      *)
(*   filter_candidates -> analyze_activity -> final_ranking ->             *)
(*   display_results -> END.                                               *)
(*                                                                         *)
(* Repository dicts are shared, mutable Python objects: every list of the  *)
(* AgentState holds references to the same dicts.  The model keeps one     *)
(* store `repo` (id -> dict) and the lists are sequences of ids.  A dict   *)
(* is a function whose DOMAIN is the set of keys present.                  *)
(*                                                                         *)
(* Fixed-point units: semantic_similarity, cross_encoder_score and the     *)
(* threshold are in tenths; activity_score is in thirtieths (so that       *)
(* days/30 is exact); log(stars+1) is in tenths; a normalised value and a  *)
(* final_score are exact fractions <<numerator, denominator>>.             *)
(***************************************************************************)
EXTENDS Integers, Sequences, FiniteSets, TLC

VARIABLES
    pc,                  \* the node about to run, or "END", or "error"
    config,              \* AgentConfiguration of the run
    repo,                \* id -> repository dict (shared by every list)
    repositories,        \* AgentState.repositories
    semantic_ranked,     \* AgentState.semantic_ranked
    reranked_candidates, \* AgentState.reranked_candidates
    filtered_candidates, \* AgentState.filtered_candidates
    final_ranked,        \* AgentState.final_ranked
    final_results,       \* the candidates display_results renders
    norms,               \* final_ranking's norm_ce/norm_sem/norm_act/norm_star
    calls,               \* collaborator calls made so far
    lookups,             \* activity lookups made: <<id, pr kind, commit kind>>
    trace                \* the nodes started so far, in order

vars == <<pc, config, repo, repositories, semantic_ranked, reranked_candidates,
          filtered_candidates, final_ranked, final_results, norms, calls,
          lookups, trace>>

----------------------------------------------------------------------------
(* Bounds of the model *)

MaxRepos == 3
MaxFaults == 1

(* The repositories GitHub and the two models can answer with.  sim is the *)
(* cosine similarity of the document to the query, ce the cross-encoder    *)
(* score of the (query, document) pair, prs the open pull requests, days   *)
(* the age of the latest commit.                                           *)
Catalog == <<
    [stars |-> 10, open_issues_count |-> 0, sim |-> -1, ce |-> 20, prs |-> 0, days |-> 45],
    [stars |-> 5,  open_issues_count |-> 2, sim |-> -3, ce |-> 60, prs |-> 1, days |-> 0],
    [stars |-> 60, open_issues_count |-> 4, sim |-> 8,  ce |-> 75, prs |-> 2, days |-> 10],
    [stars |-> 10, open_issues_count |-> 0, sim |-> -1, ce |-> 20, prs |-> 0, days |-> 45],
    [stars |-> 60, open_issues_count |-> 2, sim |-> 4,  ce |-> 20, prs |-> 0, days |-> 400] >>

CatalogIds == DOMAIN Catalog

\* the configurations tried, the defaults of AgentConfiguration first
KVals == <<100, 1, 0>>
TopNVals == <<50, 1>>
MinStarsVals == <<50, 8>>
ThresholdVals == <<55, 80>>

(* Program constants *)
RerankCap == 100
DisplayTopN == 10
StaleDays == 999
DefaultActivity30 == -3000
W_CE == 3
W_SEM == 2
W_ACT == 2
W_STAR == 3
W_SCALE == 10

----------------------------------------------------------------------------
(* Python helpers *)

Min(a, b) == IF a < b THEN a ELSE b
Max(a, b) == IF a > b THEN a ELSE b

Range(s) == {s[i] : i \in DOMAIN s}

SetMin(S) == CHOOSE x \in S : \A y \in S : x <= y
SetMax(S) == CHOOSE x \in S : \A y \in S : x >= y

\* dict.get(key, default)
Get(d, key, default) == IF key \in DOMAIN d THEN d[key] ELSE default

\* dict.update(upd) / d[key] = value
Update(d, upd) == upd @@ d

\* s[:n]
Take(s, n) == SubSeq(s, 1, Min(n, Len(s)))

\* the sequences of distinct ids of length n
DistinctSeqs(S, n) ==
    {s \in [1..n -> S] : \A i, j \in 1..n : i # j => s[i] # s[j]}

RECURSIVE InsertDescUnstable(_, _, _)
InsertDescUnstable(x, s, keyf) ==
    IF s = <<>> THEN <<x>>
    ELSE IF keyf[Head(s)] > keyf[x]
         THEN <<Head(s)>> \o InsertDescUnstable(x, Tail(s), keyf)
         ELSE <<x>> \o s

\* x goes after every element whose key is >= its own
RECURSIVE InsertDesc(_, _, _)
InsertDesc(x, s, keyf) ==
    IF s = <<>> THEN <<x>>
    ELSE IF keyf[Head(s)] >= keyf[x]
         THEN <<Head(s)>> \o InsertDesc(x, Tail(s), keyf)
         ELSE <<x>> \o s

\* sorted(s, key=keyf, reverse=True): descending, equal keys keep their order
RECURSIVE SortedDesc(_, _)
SortedDesc(s, keyf) ==
    IF s = <<>> THEN <<>>
    ELSE InsertDesc(s[Len(s)], SortedDesc(SubSeq(s, 1, Len(s) - 1), keyf), keyf)

----------------------------------------------------------------------------
(* The graph *)

Stages == <<"fetch_repositories", "dense_retrieval", "cross_encoder_rerank",
            "filter_candidates", "analyze_activity", "final_ranking",
            "display_results">>

EdgeSkipsRerank(node) ==
    CASE node = "START" -> "fetch_repositories"
      [] node = "fetch_repositories" -> "dense_retrieval"
      [] node = "dense_retrieval" -> "filter_candidates"
      [] node = "cross_encoder_rerank" -> "filter_candidates"
      [] node = "filter_candidates" -> "analyze_activity"
      [] node = "analyze_activity" -> "final_ranking"
      [] node = "final_ranking" -> "display_results"
      [] node = "display_results" -> "END"

\* builder.add_edge(node, Edge(node))
Edge(node) ==
    CASE node = "START" -> "fetch_repositories"
      [] node = "fetch_repositories" -> "dense_retrieval"
      [] node = "dense_retrieval" -> "cross_encoder_rerank"
      [] node = "cross_encoder_rerank" -> "filter_candidates"
      [] node = "filter_candidates" -> "analyze_activity"
      [] node = "analyze_activity" -> "final_ranking"
      [] node = "final_ranking" -> "display_results"
      [] node = "display_results" -> "END"

\* a node returns: the graph moves along its edge
Advance(node) ==
    /\ pc' = Edge(node)
    /\ trace' = Append(trace, node)

\* a node raises: the exception leaves the graph and the run is over
Raise(node) ==
    /\ pc' = "error"
    /\ trace' = Append(trace, node)

Init ==
    /\ pc = Edge("START")
    /\ \E k \in DOMAIN KVals, n \in DOMAIN TopNVals,
          m \in DOMAIN MinStarsVals, t \in DOMAIN ThresholdVals :
            config = [dense_retrieval_k |-> KVals[k],
                      cross_encoder_top_n |-> TopNVals[n],
                      min_stars |-> MinStarsVals[m],
                      cross_encoder_threshold |-> ThresholdVals[t]]
    /\ repo = [id \in CatalogIds |-> <<>>]
    /\ repositories = <<>>
    /\ semantic_ranked = <<>>
    /\ reranked_candidates = <<>>
    /\ filtered_candidates = <<>>
    /\ final_ranked = <<>>
    /\ final_results = <<>>
    /\ norms = <<>>
    /\ calls = {}
    /\ lookups = <<>>
    /\ trace = <<>>

----------------------------------------------------------------------------
(* Node 1: fetch_repositories *)

\* the dict fetch_github_repositories appends for one search hit
NewRepo(id) ==
    [stars |-> Catalog[id].stars, open_issues_count |-> Catalog[id].open_issues_count]

fetch_repositories ==
    /\ pc = "fetch_repositories"
    /\ \/ \E n \in 0..MaxRepos : \E found \in DistinctSeqs(CatalogIds, n) :
            /\ repositories' = found
            /\ repo' = [id \in CatalogIds |->
                          IF id \in Range(found) THEN NewRepo(id) ELSE <<>>]
            /\ calls' = calls \cup {"fetch"}
            /\ Advance("fetch_repositories")
       \/ \* requests.get raises
          /\ calls' = calls \cup {"fetch"}
          /\ Raise("fetch_repositories")
          /\ UNCHANGED <<repo, repositories>>
    /\ UNCHANGED <<config, semantic_ranked, reranked_candidates, filtered_candidates,
                   final_ranked, final_results, norms, lookups>>

----------------------------------------------------------------------------
(* Node 2: dense_retrieval *)

\* index.search(query, k): the positions of k documents of largest inner
\* product; which of several equally similar documents is returned is the
\* index's choice
SearchResults(docs, k) ==
    {S \in SUBSET (DOMAIN docs) :
        /\ Cardinality(S) = k
        /\ \A i \in S : \A j \in (DOMAIN docs) \ S :
              Catalog[docs[i]].sim >= Catalog[docs[j]].sim}

\* the store after `state.repositories[idx]["semantic_similarity"] = score`
WithSimilarity(store, docs, hits) ==
    [id \in CatalogIds |->
        IF \E i \in hits : docs[i] = id
        THEN Update(store[id], [semantic_similarity |-> Catalog[id].sim])
        ELSE store[id]]

SemanticKey(store) ==
    [id \in CatalogIds |-> Get(store[id], "semantic_similarity", 0)]

dense_retrieval ==
    /\ pc = "dense_retrieval"
    /\ IF repositories = <<>>
       THEN /\ semantic_ranked' = <<>>
            /\ Advance("dense_retrieval")
            /\ UNCHANGED <<repo, calls>>
       ELSE /\ calls' = calls \cup {"embed"}
            /\ LET k == Min(config.dense_retrieval_k, Len(repositories)) IN
               \/ \E hits \in SearchResults(repositories, k) :
                    /\ repo' = WithSimilarity(repo, repositories, hits)
                    /\ semantic_ranked' = SortedDesc(repositories, SemanticKey(repo'))
                    /\ Advance("dense_retrieval")
               \/ \* faiss builds whose search asserts k > 0
                  /\ k = 0
                  /\ Raise("dense_retrieval")
                  /\ UNCHANGED <<repo, semantic_ranked>>
    /\ UNCHANGED <<config, repositories, reranked_candidates, filtered_candidates,
                   final_ranked, final_results, norms, lookups>>

----------------------------------------------------------------------------
(* Node 3: cross_encoder_rerank *)

\* the store after `candidate["cross_encoder_score"] = score`
WithCrossEncoderScore(store, candidates) ==
    [id \in CatalogIds |->
        IF id \in Range(candidates)
        THEN Update(store[id], [cross_encoder_score |-> Catalog[id].ce])
        ELSE store[id]]

CrossEncoderKey(store) ==
    [id \in CatalogIds |-> Get(store[id], "cross_encoder_score", 0)]

cross_encoder_rerank_func(store, candidates, top_n) ==
    Take(SortedDesc(candidates, CrossEncoderKey(store)), top_n)

cross_encoder_rerank ==
    /\ pc = "cross_encoder_rerank"
    /\ LET candidates_for_rerank == Take(semantic_ranked, RerankCap) IN
         /\ calls' = calls \cup {"score"}
         /\ repo' = WithCrossEncoderScore(repo, candidates_for_rerank)
         /\ reranked_candidates' =
              cross_encoder_rerank_func(repo', candidates_for_rerank,
                                        config.cross_encoder_top_n)
    /\ Advance("cross_encoder_rerank")
    /\ UNCHANGED <<config, repositories, semantic_ranked, filtered_candidates,
                   final_ranked, final_results, norms, lookups>>

----------------------------------------------------------------------------
(* Node 4: filter_candidates *)

DroppedIfEitherLow(d, min_stars, threshold) ==
    d["stars"] < min_stars \/ Get(d, "cross_encoder_score", 0) < threshold

\* the condition of the `continue` in the filter loop
Dropped(d, min_stars, threshold) ==
    d["stars"] < min_stars /\ Get(d, "cross_encoder_score", 0) < threshold

Survivors(store, candidates, min_stars, threshold) ==
    SelectSeq(candidates, LAMBDA id : ~Dropped(store[id], min_stars, threshold))

FilterWithoutFallback(store, candidates, min_stars, threshold) ==
    Survivors(store, candidates, min_stars, threshold)

\* the value assigned to state.filtered_candidates
Filter(store, candidates, min_stars, threshold) ==
    LET filtered == Survivors(store, candidates, min_stars, threshold) IN
    IF filtered = <<>> THEN candidates ELSE filtered

filter_candidates ==
    /\ pc = "filter_candidates"
    /\ filtered_candidates' = Filter(repo, reranked_candidates, config.min_stars,
                                     config.cross_encoder_threshold)
    /\ Advance("filter_candidates")
    /\ UNCHANGED <<config, repo, repositories, semantic_ranked, reranked_candidates,
                   final_ranked, final_results, norms, calls, lookups>>

----------------------------------------------------------------------------
(* Node 5: analyze_activity *)

PRPageCap == 100

\* what the pulls request can come back with: a 200 response, another
\* status, or an exception out of requests.get
PrKinds == {"ok", "non200", "network_error"}

\* what the commits request can come back with: a 200 response with a
\* commit, a 200 response with an empty list, another status, an exception
\* out of requests.get, a 200 response whose body is not the expected JSON
CommitKinds == {"ok", "empty", "non200", "network_error", "malformed"}

FaultsOf(plan, ids) ==
    Cardinality({id \in ids : plan[id].pr # "ok"})
      + Cardinality({id \in ids : plan[id].commits # "ok"})

\* the responses GitHub gives to the lookups of one run
ResponsePlans(ids) ==
    {plan \in [ids -> [pr : PrKinds, commits : CommitKinds]] :
        FaultsOf(plan, ids) <= MaxFaults}

\* does analyze_repository_activity raise under these responses
ActivityRaises(r) ==
    r.pr = "network_error" \/ r.commits \in {"network_error", "malformed"}

\* the lookups made before it returns or raises
LookupsMade(id, r) ==
    <<id, r.pr, IF r.pr = "network_error" THEN "not_attempted" ELSE r.commits>>

\* the dict analyze_repository_activity returns (it does not raise under r)
analyze_repository_activity(d, id, r) ==
    LET pr_count == IF r.pr = "ok" THEN Min(Catalog[id].prs, PRPageCap) ELSE 0
        days_diff == IF r.commits = "ok" THEN Catalog[id].days ELSE StaleDays
        open_issues == Get(d, "open_issues_count", 0)
        non_pr_issues == Max(0, open_issues - pr_count)
    IN  [pr_count |-> pr_count,
         latest_commit_days |-> days_diff,
         activity_score |-> 3 * 30 * pr_count + 30 * non_pr_issues - days_diff]

\* the loop over state.filtered_candidates: the store, the lookups made and
\* whether an exception ended it
RECURSIVE ActivityLoop(_, _, _, _)
ActivityLoop(store, candidates, plan, made) ==
    IF candidates = <<>>
    THEN [store |-> store, made |-> made, raised |-> FALSE]
    ELSE LET id == Head(candidates)
             r == plan[id]
         IN  IF ActivityRaises(r)
             THEN [store |-> store, made |-> Append(made, LookupsMade(id, r)),
                   raised |-> TRUE]
             ELSE ActivityLoop(
                    [store EXCEPT ![id] =
                        Update(@, analyze_repository_activity(@, id, r))],
                    Tail(candidates), plan, Append(made, LookupsMade(id, r)))

analyze_activity ==
    /\ pc = "analyze_activity"
    /\ \E plan \in ResponsePlans(Range(filtered_candidates)) :
         LET out == ActivityLoop(repo, filtered_candidates, plan, <<>>) IN
           /\ repo' = out.store
           /\ lookups' = out.made
           /\ calls' = IF out.made = <<>> THEN calls ELSE calls \cup {"activity"}
           /\ IF out.raised THEN Raise("analyze_activity")
                            ELSE Advance("analyze_activity")
    /\ UNCHANGED <<config, repositories, semantic_ranked, reranked_candidates,
                   filtered_candidates, final_ranked, final_results, norms>>

----------------------------------------------------------------------------
(* Node 6: final_ranking *)

\* math.log(n) in tenths, for the star counts of the catalog
Log10ths(n) ==
    CASE n = 1 -> 0
      [] n = 6 -> 18
      [] n = 11 -> 24
      [] n = 61 -> 41

Signals == {"ce", "sem", "act", "star"}

\* the four raw signals final_ranking reads from a repository dict
Signal(d, s) ==
    CASE s = "sem" -> Get(d, "semantic_similarity", 0)
      [] s = "ce" -> Get(d, "cross_encoder_score", 0)
      [] s = "act" -> Get(d, "activity_score", DefaultActivity30)
      [] s = "star" -> Log10ths(Get(d, "stars", 0) + 1)

SignalValues(store, candidates, s) ==
    {Signal(store[id], s) : id \in Range(candidates)}

normalizeByMax(val, min_val, max_val) ==
    IF max_val - min_val = 0 THEN <<1, 2>>
    ELSE <<val, max_val>>

\* normalize of final_ranking, as an exact fraction
normalize(val, min_val, max_val) ==
    IF max_val - min_val = 0 THEN <<1, 2>>
    ELSE <<val - min_val, max_val - min_val>>

FusedScoreEqualWeights(n) ==
    <<  2 * n.ce[1] * n.sem[2] * n.act[2] * n.star[2]
      + 2 * n.sem[1] * n.ce[2] * n.act[2] * n.star[2]
      + 2 * n.act[1] * n.ce[2] * n.sem[2] * n.star[2]
      + 2 * n.star[1] * n.ce[2] * n.sem[2] * n.act[2],
      W_SCALE * n.ce[2] * n.sem[2] * n.act[2] * n.star[2] >>

\* 0.3 * norm_ce + 0.2 * norm_sem + 0.2 * norm_act + 0.3 * norm_star
FusedScore(n) ==
    <<  W_CE * n.ce[1] * n.sem[2] * n.act[2] * n.star[2]
      + W_SEM * n.sem[1] * n.ce[2] * n.act[2] * n.star[2]
      + W_ACT * n.act[1] * n.ce[2] * n.sem[2] * n.star[2]
      + W_STAR * n.star[1] * n.ce[2] * n.sem[2] * n.act[2],
      W_SCALE * n.ce[2] * n.sem[2] * n.act[2] * n.star[2] >>

\* norm_ce, norm_sem, norm_act, norm_star of every candidate
Normalized(store, candidates) ==
    [id \in Range(candidates) |->
        [s \in Signals |->
            normalize(Signal(store[id], s),
                      SetMin(SignalValues(store, candidates, s)),
                      SetMax(SignalValues(store, candidates, s)))]]

\* the sort key: the final scores of one run share their denominator
FinalKey(store) ==
    [id \in CatalogIds |->
        IF "final_score" \in DOMAIN store[id] THEN store[id]["final_score"][1] ELSE 0]

final_ranking ==
    /\ pc = "final_ranking"
    /\ IF filtered_candidates = <<>>
       THEN \* min() of an empty list raises ValueError
            /\ Raise("final_ranking")
            /\ UNCHANGED <<repo, final_ranked, norms>>
       ELSE /\ norms' = Normalized(repo, filtered_candidates)
            /\ repo' = [id \in CatalogIds |->
                          IF id \in Range(filtered_candidates)
                          THEN Update(repo[id], [final_score |-> FusedScore(norms'[id])])
                          ELSE repo[id]]
            /\ final_ranked' = SortedDesc(filtered_candidates, FinalKey(repo'))
            /\ Advance("final_ranking")
    /\ UNCHANGED <<config, repositories, semantic_ranked, reranked_candidates,
                   filtered_candidates, final_results, calls, lookups>>

----------------------------------------------------------------------------
(* Node 7: display_results *)

display_results ==
    /\ pc = "display_results"
    /\ final_results' = Take(final_ranked, DisplayTopN)
    /\ Advance("display_results")
    /\ UNCHANGED <<config, repo, repositories, semantic_ranked, reranked_candidates,
                   filtered_candidates, final_ranked, norms, calls, lookups>>

----------------------------------------------------------------------------
Next ==
    \/ fetch_repositories
    \/ dense_retrieval
    \/ cross_encoder_rerank
    \/ filter_candidates
    \/ analyze_activity
    \/ final_ranking
    \/ display_results

Spec == Init /\ [][Next]_vars

\* a run under the default cross_encoder_top_n, min_stars and
\* cross_encoder_threshold of AgentConfiguration, with any dense_retrieval_k
DefaultsInit ==
    /\ Init
    /\ config.cross_encoder_top_n = 50
    /\ config.min_stars = 50
    /\ config.cross_encoder_threshold = 55

\* the graph runner runs the next node as soon as the previous one returns
FairSpec == DefaultsInit /\ [][Next]_vars /\ WF_vars(Next)

----------------------------------------------------------------------------
(* Properties *)

\* node has run and returned (it did not raise)
Returned(node) ==
    \E i \in DOMAIN trace :
        trace[i] = node /\ (i < Len(trace) \/ pc # "error")

RunOver == pc \in {"END", "error"}

K == config.dense_retrieval_k

\* the position of id in the list s
IndexOf(s, id) == CHOOSE i \in DOMAIN s : s[i] = id

\* C1: when no repository was fetched, every stage completes with an empty
\* output, no stage invokes its collaborator (embedding, pairwise scoring,
\* activity lookups) and none raises: the run ends at END with
\* final_ranked = [].
C1_EmptyInputCompletes ==
    (Returned("fetch_repositories") /\ repositories = <<>> /\ RunOver) =>
        /\ pc = "END"
        /\ final_ranked = <<>>
        /\ semantic_ranked = <<>> /\ reranked_candidates = <<>>
        /\ filtered_candidates = <<>>
        /\ calls \cap {"embed", "score", "activity"} = {}

\* C2: dense retrieval returns exactly min(K, number of documents)
\* candidates, each carrying a semantic_similarity; no documents, no result.
C2_RetrievalCardinality ==
    Returned("dense_retrieval") =>
        IF repositories = <<>> THEN semantic_ranked = <<>>
        ELSE /\ Len(semantic_ranked) = Min(K, Len(repositories))
             /\ \A i \in DOMAIN semantic_ranked :
                   "semantic_similarity" \in DOMAIN repo[semantic_ranked[i]]

\* C3: the dense retrieval output is in descending order of the documents'
\* cosine similarity to the query: no document comes after a less similar one.
C3_RetrievalOrdering ==
    Returned("dense_retrieval") =>
        \A i, j \in DOMAIN semantic_ranked :
            Catalog[semantic_ranked[i]].sim > Catalog[semantic_ranked[j]].sim => i < j

\* a candidate weak on both signals of the quality filter
LowOnBoth(id) ==
    /\ Catalog[id].stars < config.min_stars
    /\ Catalog[id].ce < config.cross_encoder_threshold

\* C4: a non-empty reranked list never filters to an empty list: the result
\* is the original list, unchanged, when the rule would remove everyone, and
\* otherwise a non-empty part of it.
C4_FilterNonEmpty ==
    (Returned("filter_candidates") /\ reranked_candidates # <<>>) =>
        /\ filtered_candidates # <<>>
        /\ Range(filtered_candidates) \subseteq Range(reranked_candidates)
        /\ (\A id \in Range(reranked_candidates) : LowOnBoth(id)) =>
              filtered_candidates = reranked_candidates

C4_Witness ==
    /\ Returned("filter_candidates")
    /\ Len(reranked_candidates) >= 2
    /\ \A id \in Range(reranked_candidates) : LowOnBoth(id)
    /\ filtered_candidates = reranked_candidates

\* C5: when at least one candidate survives, exactly the candidates with
\* stars < minStars and score < threshold are dropped, and the survivors keep
\* their input order.
C5_FilterRule ==
    (/\ Returned("filter_candidates")
     /\ \E id \in Range(reranked_candidates) : ~LowOnBoth(id)) =>
        filtered_candidates =
            SelectSeq(reranked_candidates, LAMBDA id : ~LowOnBoth(id))

\* A(stars 10, score 2.0), B(stars 5, score 6.0), minStars 50, threshold 5.5
C5_Witness ==
    /\ Returned("filter_candidates")
    /\ config.min_stars = 50 /\ config.cross_encoder_threshold = 55
    /\ reranked_candidates = <<2, 1>>
    /\ filtered_candidates = <<2>>

FailedCommitKinds == {"empty", "non200", "network_error", "malformed"}

\* C6: a candidate whose commit lookup failed or found no commit gets
\* latest_commit_days = 999 and activity_score =
\* 3*prCount + max(0, openIssues - prCount) - 999/30, and the run goes on.
C6_FailedCommitLookupDefaults ==
    \A i \in DOMAIN lookups :
        lookups[i][3] \in FailedCommitKinds =>
            LET d == repo[lookups[i][1]] IN
            /\ pc # "error"
            /\ "latest_commit_days" \in DOMAIN d
            /\ d["latest_commit_days"] = StaleDays
            /\ d["activity_score"] =
                  30 * (3 * d["pr_count"]
                        + Max(0, d["open_issues_count"] - d["pr_count"])) - StaleDays

FinalScore(id) == repo[id]["final_score"]

\* C7: final_ranking returns the candidates it was given, each once, in
\* descending order of final_score, equal scores in their input order.
C7_FinalRankingStableSort ==
    Returned("final_ranking") =>
        /\ Len(final_ranked) = Len(filtered_candidates)
        /\ Range(final_ranked) = Range(filtered_candidates)
        /\ \A i, j \in DOMAIN final_ranked : i < j =>
              /\ FinalScore(final_ranked[i])[2] = FinalScore(final_ranked[j])[2]
              /\ FinalScore(final_ranked[i])[1] >= FinalScore(final_ranked[j])[1]
              /\ FinalScore(final_ranked[i])[1] = FinalScore(final_ranked[j])[1] =>
                    IndexOf(filtered_candidates, final_ranked[i])
                      < IndexOf(filtered_candidates, final_ranked[j])

C7_Witness ==
    /\ Returned("final_ranking")
    /\ final_ranked # filtered_candidates
    /\ \E i, j \in DOMAIN final_ranked :
          i < j /\ FinalScore(final_ranked[i]) = FinalScore(final_ranked[j])

\* strictly above every other candidate on each of the four signals
UniqueMaxOnAll(id) ==
    \A s \in Signals : \A other \in Range(filtered_candidates) \ {id} :
        Signal(repo[id], s) > Signal(repo[other], s)

WeightsSumToOne == W_CE + W_SEM + W_ACT + W_STAR = W_SCALE

\* C8 as stated: the weights sum to 1.0 and, in any candidate set, a
\* candidate that is the unique maximum on all four signals has final_score 1.0.
C8_UniqueMaxScoresOne ==
    /\ WeightsSumToOne
    /\ Returned("final_ranking") =>
          \A id \in Range(filtered_candidates) :
              UniqueMaxOnAll(id) => FinalScore(id)[1] = FinalScore(id)[2]

\* C8 amended: the weights sum to 1.0; in a set of at least two candidates a
\* candidate that is the unique maximum on all four signals has final_score
\* 1.0, and a lone candidate has final_score 0.5.
C8_UniqueMaxAmongSeveral ==
    /\ WeightsSumToOne
    /\ Returned("final_ranking") =>
          \A id \in Range(filtered_candidates) :
              /\ (Len(filtered_candidates) >= 2 /\ UniqueMaxOnAll(id)) =>
                    FinalScore(id)[1] = FinalScore(id)[2]
              /\ Len(filtered_candidates) = 1 =>
                    2 * FinalScore(id)[1] = FinalScore(id)[2]

C8_Witness ==
    /\ Returned("final_ranking")
    /\ Len(filtered_candidates) >= 2
    /\ \E id \in Range(filtered_candidates) :
          UniqueMaxOnAll(id) /\ FinalScore(id)[1] = FinalScore(id)[2]

\* C9: over the min and max of the current candidate set, a signal on which
\* all candidates agree normalises to 0.5 for each of them; otherwise a value
\* normalises to (value - min)/(max - min), which is within [0,1], 1 for the
\* maximum and 0 for the minimum.
C9_Normalizer ==
    Returned("final_ranking") =>
        \A s \in Signals : \A id \in Range(filtered_candidates) :
            LET v == Signal(repo[id], s)
                lo == SetMin(SignalValues(repo, filtered_candidates, s))
                hi == SetMax(SignalValues(repo, filtered_candidates, s))
                n == norms[id][s]
            IN  /\ lo = hi => (n[2] > 0 /\ 2 * n[1] = n[2])
                /\ lo < hi =>
                      /\ n[2] > 0
                      /\ n[1] * (hi - lo) = (v - lo) * n[2]
                      /\ 0 <= n[1] /\ n[1] <= n[2]
                      /\ v = hi => n[1] = n[2]
                      /\ v = lo => n[1] = 0

C9_Witness ==
    /\ Returned("final_ranking")
    /\ Len(filtered_candidates) >= 2
    /\ \E s \in Signals : Cardinality(SignalValues(repo, filtered_candidates, s)) = 1
    /\ \E s \in Signals : \E id \in Range(filtered_candidates) :
          0 < norms[id][s][1] /\ norms[id][s][1] < norms[id][s][2]

\* the nodes run so far are the first nodes of the pipeline, in its order,
\* and the node about to run is the one after them
LinearOrder ==
    /\ Len(trace) <= Len(Stages)
    /\ trace = SubSeq(Stages, 1, Len(trace))
    /\ pc = "END" => trace = Stages
    /\ pc \notin {"END", "error"} =>
          Len(trace) < Len(Stages) /\ pc = Stages[Len(trace) + 1]

\* C10: the stages run in the pipeline's order, each at most once, none
\* skipped or revisited, and a run in which no stage raises reaches END.
C10_LinearPipeline ==
    /\ []LinearOrder
    /\ ([](pc # "error")) => <>(pc = "END")

C10_Witness ==
    /\ pc = "END"
    /\ trace = Stages
    /\ Len(final_ranked) >= 2

====
